---- MODULE Spec2Model ----
(***************************************************************************)
(* Order executor of the scalper (src/broker.py) and the venue it talks    *)
(* to.  Prices are integers in price units, PointUnits units to one point  *)
(* (info.point); volumes are integers in thousandths of a lot.  A Python   *)
(* None ticket is NoTicket; an Optional[float] is the tuple <<>> or <<x>>. *)
(* Floating-point rounding error is not modelled.                          *)
(***************************************************************************)
EXTENDS Integers, Sequences, FiniteSets, TLC

\* ------------------------------------------------------------------ bounds
PointUnits == 2
MaxSent == 2

\* --------------------------------------------------------------- constants
MAGIC == 20251030
MaxAttempts == 3
NoTicket == 0

Point == PointUnits

Min(a, b) == IF a <= b THEN a ELSE b
Max(a, b) == IF a >= b THEN a ELSE b
Abs(a) == IF a >= 0 THEN a ELSE 0 - a

\* Python's int(): truncation toward zero of the quotient n / d, d > 0.
TruncDiv(n, d) == IF n >= 0 THEN n \div d ELSE 0 - ((0 - n) \div d)

\* ------------------------------------------------------------ the venue's data
Dirs == {"LONG", "SHORT"}

Codes ==
  {"DONE", "PLACED", "NO_CHANGES", "REQUOTE", "FROZEN", "INVALID_STOPS",
   "INVALID_FILL", "OTHER", "NONE"}

\* symbol_info: stops and freeze levels in points, volumes in 0.001 lot.
SymbolInfos ==
  { [stops |-> 2, freeze |-> 0, vmin |-> 10, vmax |-> 50, vstep |-> 10],
    [stops |-> 0, freeze |-> 3, vmin |-> 15, vmax |-> 45, vstep |-> 10] }

Bids == {20 * Point, 22 * Point}
Spread == Point

\* The trail candidates a caller passes to trail_stop.
TrailPrices == {19 * Point, 20 * Point + 1, 24 * Point}

\* What a caller proposes: the stop and target distances from the entry price.
ProposedDistances == {<<1, 2>>, <<7, 14>>}
\* The lot and comment of an entry (send_entry's default) and of a hedge (add_hedge).
EntryKinds == {<<10, "ScalperEntry">>, <<25, "HEDGE">>}

OwnPos ==
  [ticket |-> 1, type |-> "LONG", volume |-> 10, comment |-> "ScalperEntry",
   magic |-> MAGIC, price_open |-> 20 * Point, sl |-> 19 * Point, tp |-> 0]
ForeignPos ==
  [ticket |-> 2, type |-> "SHORT", volume |-> 10, comment |-> "ScalperEntry",
   magic |-> 0, price_open |-> 22 * Point, sl |-> 0, tp |-> 16 * Point]
\* The positions open when the action starts; the venue closes any of them on
\* its own while the action runs (StopOut).
InitPositions == <<OwnPos, ForeignPos>>

VARIABLES
  tick,        \* the venue's current bid (ask = bid + Spread)
  sym,         \* the venue's symbol_info record
  positions,   \* the venue's open positions, oldest first
  nextTicket,  \* the ticket the venue gives the next position
  op,          \* the running executor action, or "idle"
  pc,          \* its position
  dir, lot, comment, sl_price, tp_price,   \* send_entry's arguments / locals
  attempt,     \* send_entry's counter of counted attempts
  iocSent,     \* order_send calls with ORDER_FILLING_IOC the venue has received
  received,    \* order_send calls the venue has received
  price,       \* the price the running iteration fetched
  lastReq,     \* the last request handed to order_send
  lastCode,    \* the venue's last answer
  preferred,   \* the order id of the venue's answer (preferred_ticket)
  newTicket,   \* the ticket of the position the venue opened for this entry
  ticket,      \* send_entry's return value
  ok,          \* the return value of a modify or close action
  argTicket,   \* the ticket argument of a modify or close action
  trail_price, \* trail_stop's argument
  mpos, mbid,  \* the position and the bid a modify or close action fetched
  caList,      \* close_all: tickets of the fetched list still to close
  beDone,      \* tickets whose breakeven_done flag the caller has set
  lz,          \* make_legal_sl_tp applied on its own: arguments and results
  state,       \* main.py's state dict
  dryrun,      \* main.py's --dryrun flag
  loop,        \* the control loop's position in its tick and what it last did
  hedgeLayers, \* hedge positions the venue opened since the basket was last flat
  ladder,      \* risk.py's state dict and what its controllers last decided
  calc         \* a pure function applied on its own: its name, arguments and result

\* The variables of the other specifications of this module, which the
\* executor leaves alone.
ctlVars == <<state, dryrun, loop, hedgeLayers>>
riskVars == <<ladder, calc>>
otherVars == <<lz, ctlVars, riskVars>>

venueVars == <<tick, sym, positions, nextTicket>>
entryVars == <<dir, lot, comment, sl_price, tp_price, attempt, price, preferred, newTicket, ticket>>
modVars == <<ok, argTicket, trail_price, mpos, mbid, caList>>
execVars ==
  <<tick, sym, positions, nextTicket, op, pc, dir, lot, comment, sl_price,
    tp_price, attempt, iocSent, received, price, lastReq, lastCode, preferred,
    newTicket, ticket, ok, argTicket, trail_price, mpos, mbid, caList, beDone>>
vars == <<execVars, otherVars>>

NoReq == [kind |-> "none", price |-> 0, sl |-> 0, tp |-> 0, fill |-> "none", bid |-> 0]
NoPos == [ticket |-> NoTicket]

Ask == tick + Spread

\* ------------------------------------------------------------ pure helpers

\* _norm(price, digits) = int(price * 10^digits + 0.5) / 10^digits
norm(x) == TruncDiv(2 * x + Point, 2 * Point) * Point

\* Python's round(): to the nearest integer, ties to the even one.
RoundHalfEven(n, d) ==
  LET q == n \div d
      r == n % d
  IN IF 2 * r < d THEN q
     ELSE IF 2 * r > d THEN q + 1
     ELSE IF q % 2 = 0 THEN q ELSE q + 1

snap_to_step(volume, step) ==
  IF step <= 0 THEN volume ELSE RoundHalfEven(volume, step) * step

\* _round_volume with symbol_info available (available = FALSE: info is None).
round_volume(vol, available) ==
  IF ~available THEN vol
  ELSE LET v_min == sym.vmin
           v_max == IF sym.vmax = 0 THEN 1000000 ELSE sym.vmax
           v_step == IF sym.vstep = 0 THEN 10 ELSE sym.vstep
           clamped == Max(v_min, Min(v_max, vol))
           snapped == snap_to_step(clamped, v_step)
       IN Max(v_min, Min(v_max, snapped))

\* A legalization that moves every stop one more point away from the market.
LegalSLPushing(direction, entry_price, sl, bid, ask) ==
  LET stops == sym.stops * Point
      freeze == sym.freeze * Point
      buffer == Point
  IN IF direction = "LONG"
     THEN LET m0 == Min(bid - stops - buffer, entry_price - buffer)
              min_sl == IF freeze # 0 THEN Min(m0, bid - freeze - buffer) ELSE m0
          IN (IF sl > min_sl THEN min_sl ELSE sl) - buffer
     ELSE LET m0 == Max(ask + stops + buffer, entry_price + buffer)
              min_sl == IF freeze # 0 THEN Max(m0, ask + freeze + buffer) ELSE m0
          IN (IF sl < min_sl THEN min_sl ELSE sl) + buffer

\* The stop make_legal_sl_tp computes before normalisation.
LegalSL(direction, entry_price, sl, bid, ask) ==
  LET stops == sym.stops * Point
      freeze == sym.freeze * Point
      buffer == Point
  IN IF direction = "LONG"
     THEN LET m0 == Min(bid - stops - buffer, entry_price - buffer)
              min_sl == IF freeze # 0 THEN Min(m0, bid - freeze - buffer) ELSE m0
          IN IF sl > min_sl THEN min_sl ELSE sl
     ELSE LET m0 == Max(ask + stops + buffer, entry_price + buffer)
              min_sl == IF freeze # 0 THEN Max(m0, ask + freeze + buffer) ELSE m0
          IN IF sl < min_sl THEN min_sl ELSE sl

\* A legalization of the target that leaves the freeze level out.
LegalTPNoFreeze(direction, entry_price, tp, bid, ask) ==
  LET stops == sym.stops * Point
      buffer == Point
  IN IF direction = "LONG"
     THEN LET min_tp == Max(ask + stops + buffer, entry_price + buffer)
          IN IF tp < min_tp THEN min_tp ELSE tp
     ELSE LET min_tp == Min(bid - stops - buffer, entry_price - buffer)
          IN IF tp > min_tp THEN min_tp ELSE tp

\* The target make_legal_sl_tp computes before normalisation.
LegalTP(direction, entry_price, tp, bid, ask) ==
  LET stops == sym.stops * Point
      freeze == sym.freeze * Point
      buffer == Point
  IN IF direction = "LONG"
     THEN LET m0 == Max(ask + stops + buffer, entry_price + buffer)
              min_tp == IF freeze # 0 THEN Max(m0, ask + freeze + buffer) ELSE m0
          IN IF tp < min_tp THEN min_tp ELSE tp
     ELSE LET m0 == Min(bid - stops - buffer, entry_price - buffer)
              min_tp == IF freeze # 0 THEN Min(m0, bid - freeze - buffer) ELSE m0
          IN IF tp > min_tp THEN min_tp ELSE tp

\* make_legal_sl_tp; sl and tp are <<>> (None) or <<x>>; available = FALSE when
\* symbol_info or symbol_info_tick returns None, and the pair passes through.
make_legal_sl_tp(direction, entry_price, sl, tp, available) ==
  IF ~available THEN <<sl, tp>>
  ELSE << IF sl = <<>> THEN <<>>
          ELSE <<norm(LegalSL(direction, entry_price, sl[1], tick, Ask))>>,
          IF tp = <<>> THEN <<>>
          ELSE <<norm(LegalTP(direction, entry_price, tp[1], tick, Ask))>> >>

\* "float(x) if x else 0.0" of an optional price.
OrZero(opt) == IF opt = <<>> THEN 0 ELSE opt[1]

\* Indices of the positions _resolve_position_ticket keeps as candidates.
Candidates(ps, l, c) ==
  {i \in 1..Len(ps) : ps[i].volume = l /\ ps[i].comment = c /\ ps[i].magic = MAGIC}

MaxOf(S) == CHOOSE x \in S : \A y \in S : y <= x

\* A resolution that takes the oldest candidate instead of the newest.
resolve_oldest_candidate(preferred_ticket, ps, l, c) ==
  IF preferred_ticket # 0 /\ \E i \in 1..Len(ps) : ps[i].ticket = preferred_ticket
  THEN preferred_ticket
  ELSE IF Len(ps) = 0 THEN NoTicket
  ELSE IF Candidates(ps, l, c) # {}
       THEN ps[CHOOSE i \in Candidates(ps, l, c) : \A j \in Candidates(ps, l, c) : i <= j].ticket
  ELSE ps[Len(ps)].ticket

\* _resolve_position_ticket, lines 270-286.
resolve_position_ticket(preferred_ticket, ps, l, c) ==
  IF preferred_ticket # 0 /\ \E i \in 1..Len(ps) : ps[i].ticket = preferred_ticket
  THEN preferred_ticket
  ELSE IF Len(ps) = 0 THEN NoTicket
  ELSE IF Candidates(ps, l, c) # {} THEN ps[MaxOf(Candidates(ps, l, c))].ticket
  ELSE ps[Len(ps)].ticket

Without(ps, i) == [j \in 1..(Len(ps) - 1) |-> IF j < i THEN ps[j] ELSE ps[j + 1]]

\* A reading of the retcodes that retries on an unknown code or a missing
\* answer instead of breaking out of the loop.
EntryClassRetryUnknown(c) ==
  IF c \in {"DONE", "PLACED"} THEN "success"
  ELSE IF c = "INVALID_STOPS" THEN "invalid_stops"
  ELSE IF c = "FROZEN" THEN "frozen"
  ELSE "requote"

\* send_entry's reading of a retcode (lines 356-389).
EntryClass(c) ==
  IF c \in {"DONE", "PLACED"} THEN "success"
  ELSE IF c = "REQUOTE" THEN "requote"
  ELSE IF c = "INVALID_STOPS" THEN "invalid_stops"
  ELSE IF c = "FROZEN" THEN "frozen"
  ELSE "abort"

\* A loop condition that lets one more iteration run.
EntryLoopCondInclusive(a) == a <= MaxAttempts

\* "while attempt < 3"
EntryLoopCond(a) == a < MaxAttempts

\* The return value of modify_stop_to_breakeven and trail_stop for a retcode.
ModifyOutcome(c) == c \in {"DONE", "PLACED"}

\* The return value of close_position for a retcode.
CloseOutcome(c) == c \in {"DONE", "PLACED"}

\* close_all has no ceiling: its counters saturate at MaxSent.
Bump(n) == IF n < MaxSent THEN n + 1 ELSE n

\* ------------------------------------------------------------------- Init
\* No legalization of its own is under way.
LzRest == [stage |-> "none"]

\* main.py lines 18-25 (the dict before initialize_day); None is <<>>.
StateRest ==
  [daily_start_equity |-> <<>>, baseline_date |-> <<>>, trades_today |-> 0,
   last_entry_ts |-> <<>>, open_trades |-> <<>>, hedge_used |-> FALSE]

\* The control loop is not running.
LoopRest == [pc |-> "none"]
CtlRest == state = StateRest /\ dryrun = FALSE /\ loop = LoopRest /\ hedgeLayers = 0

\* risk.py's controllers are not in use.
LadderRest == [call |-> "none"]

\* No pure function has been applied.
CalcRest == [fn |-> "none"]

\* The other specifications' variables at rest.
OtherRest == lz = LzRest /\ CtlRest /\ ladder = LadderRest /\ calc = CalcRest

\* No executor action has run: its locals are unset.
ExecRest ==
  /\ dir = "LONG" /\ lot = 0 /\ comment = "" /\ sl_price = 0 /\ tp_price = 0
  /\ attempt = 0 /\ iocSent = 0 /\ received = 0 /\ price = 0
  /\ lastReq = NoReq /\ lastCode = "NONE"
  /\ preferred = 0 /\ newTicket = NoTicket /\ ticket = NoTicket
  /\ ok = FALSE /\ argTicket = NoTicket /\ trail_price = 0
  /\ mpos = NoPos /\ mbid = 0 /\ caList = <<>>
  /\ beDone = {}

Init ==
  /\ tick \in Bids
  /\ sym \in SymbolInfos
  /\ positions = InitPositions
  /\ nextTicket = 3
  /\ op = "idle" /\ pc = "idle"
  /\ ExecRest
  /\ OtherRest

\* ------------------------------------------------------------- send_entry

\* The callers of send_entry: attempt_entry and the hedge branch of
\* manage_positions propose SL/TP at a distance from the live entry price.
CallEntry ==
  /\ op = "idle"
  /\ \E d \in Dirs, k \in EntryKinds, pd \in ProposedDistances :
       LET entry_price == IF d = "LONG" THEN Ask ELSE tick
       IN /\ dir' = d /\ lot' = k[1] /\ comment' = k[2]
          /\ sl_price' = IF d = "LONG" THEN entry_price - pd[1] ELSE entry_price + pd[1]
          /\ tp_price' = IF d = "LONG" THEN entry_price + pd[2] ELSE entry_price - pd[2]
  /\ op' = "entry" /\ pc' = "e_start"
  /\ UNCHANGED <<venueVars, attempt, iocSent, received, price, lastReq, lastCode,
                 preferred, newTicket, ticket, modVars, beDone>>
  /\ UNCHANGED otherVars

\* send_entry returns t: its locals go out of scope (the model clears them);
\* the return value, the venue's last answer and the venue's state remain.
EntryReturns(t) ==
  /\ pc' = "done"
  /\ ticket' = t
  /\ dir' = "LONG" /\ lot' = 0 /\ comment' = "" /\ sl_price' = 0 /\ tp_price' = 0
  /\ attempt' = 0 /\ price' = 0

\* Lines 316-328: the symbol checks, the volume rounding, attempt = 0.
EntryStart ==
  /\ op = "entry" /\ pc = "e_start"
  /\ \E infoOk \in BOOLEAN, roundOk \in BOOLEAN :
       IF infoOk
       THEN /\ lot' = round_volume(lot, roundOk)
            /\ pc' = "e_loop"
            /\ attempt' = 0 /\ ticket' = NoTicket
            /\ UNCHANGED <<dir, comment, sl_price, tp_price, price>>
       ELSE EntryReturns(NoTicket)
  /\ UNCHANGED <<venueVars, op, lastReq, lastCode, preferred, newTicket, iocSent, received,
                 modVars, beDone>>
  /\ UNCHANGED otherVars

\* A retry that keeps the price of the first iteration.
StaleEntryPrice(direction) ==
  IF attempt > 0 THEN price ELSE IF direction = "LONG" THEN Ask ELSE tick

\* Line 334: the price of the iteration, from the tick it fetched.
EntryPrice(direction) == IF direction = "LONG" THEN Ask ELSE tick

\* Lines 329-333 and 390: the loop ends when the attempts are used up or the
\* tick is unavailable, and send_entry returns ticket (None).
EntryExit ==
  /\ op = "entry" /\ pc = "e_loop"
  /\ \E tickOk \in BOOLEAN : ~(EntryLoopCond(attempt) /\ tickOk)
  /\ EntryReturns(ticket)
  /\ UNCHANGED <<venueVars, op, lastReq, lastCode, preferred, newTicket, iocSent, received,
                 modVars, beDone>>
  /\ UNCHANGED otherVars

\* Line 369: buffer = max(info.point, trade_stops_level * info.point)
InvalidStopsBuffer == Max(Point, sym.stops * Point)

\* Lines 370-375: the proposal after an INVALID_STOPS answer; adj is the
\* price of the rejected request ("adj_sl or sl_price").
Widened(adj, proposed, away) ==
  (IF adj # 0 THEN adj ELSE proposed) + away * InvalidStopsBuffer

\* An order id that is no position's ticket.
OrderIdOf(t) == t + 100

\* Lines 351-389: what send_entry does with the answer c to request req.
EntryHandle(c, req) ==
  LET cls == EntryClass(c)
  IN IF cls = "success"
     THEN /\ positions' = Append(positions,
                 [ticket |-> nextTicket, type |-> dir, volume |-> lot,
                  comment |-> comment, magic |-> MAGIC, price_open |-> req.price,
                  sl |-> req.sl, tp |-> req.tp])
          /\ nextTicket' = nextTicket + 1
          /\ newTicket' = nextTicket
          /\ pc' = "e_resolve"
          /\ price' = req.price
          /\ UNCHANGED <<dir, lot, comment, attempt, sl_price, tp_price, ticket>>
     ELSE /\ UNCHANGED <<positions, nextTicket, newTicket>>
          /\ IF cls = "abort"
             THEN EntryReturns(ticket)
             ELSE /\ pc' = "e_loop"
                  /\ attempt' = attempt + 1
                  /\ price' = req.price
                  /\ IF cls = "invalid_stops"
                     THEN /\ sl_price' = Widened(req.sl, sl_price, IF dir = "LONG" THEN 0 - 1 ELSE 1)
                          /\ tp_price' = Widened(req.tp, tp_price, IF dir = "LONG" THEN 1 ELSE 0 - 1)
                     ELSE UNCHANGED <<sl_price, tp_price>>
                  /\ UNCHANGED <<dir, lot, comment, ticket>>

\* _send_deal, line 291: the answer that triggers the fill-mode fallback.
FillRejected(c) == c = "INVALID_FILL"

\* Lines 329-350 and _send_deal's first order_send: one iteration fetches the
\* tick, legalizes the proposal, builds the request and submits it.
EntrySend ==
  /\ op = "entry" /\ pc = "e_loop"
  /\ EntryLoopCond(attempt)
  /\ \E available \in BOOLEAN, c \in Codes :
       LET p == EntryPrice(dir)
           adj == make_legal_sl_tp(dir, p, <<sl_price>>, <<tp_price>>, available)
           req == [kind |-> "entry", price |-> p, sl |-> OrZero(adj[1]),
                   tp |-> OrZero(adj[2]), fill |-> "FOK", bid |-> tick]
       IN /\ lastCode' = c
          /\ lastReq' = req
          /\ IF FillRejected(c)
             THEN /\ pc' = "e_fill"
                  /\ price' = p
                  /\ UNCHANGED <<positions, nextTicket, newTicket, dir, lot, comment,
                                 attempt, sl_price, tp_price, ticket>>
             ELSE EntryHandle(c, req)
  /\ received' = received + 1
  /\ UNCHANGED <<tick, sym, op, preferred, iocSent, modVars, beDone>>
  /\ UNCHANGED otherVars

\* _send_deal, lines 292-294: the same request again with ORDER_FILLING_IOC.
EntryFill ==
  /\ op = "entry" /\ pc = "e_fill"
  /\ \E c \in Codes :
       /\ lastCode' = c
       /\ lastReq' = [lastReq EXCEPT !.fill = "IOC"]
       /\ EntryHandle(c, lastReq')
  /\ iocSent' = iocSent + 1 /\ received' = received + 1
  /\ UNCHANGED <<tick, sym, op, preferred, modVars, beDone>>
  /\ UNCHANGED otherVars

\* The positions of ps whose ticket is in K, in their order.
Remaining(ps, K) ==
  LET Keep(q) == q.ticket \in K
  IN SelectSeq(ps, Keep)

TicketsOf(ps) == {ps[i].ticket : i \in 1..Len(ps)}

\* Lines 360-363: preferred_ticket is the answer's order (or deal) id, which
\* may be 0, the position's ticket or an id of its own.  During the 0.25 s
\* sleep the venue may close positions on its own (stop-out, SL or TP hit);
\* then the position's ticket is resolved and returned.
EntryResolve ==
  /\ op = "entry" /\ pc = "e_resolve"
  /\ \E p \in {0, newTicket, OrderIdOf(newTicket)}, K \in SUBSET TicketsOf(positions) :
       /\ preferred' = p
       /\ positions' = Remaining(positions, K)
       /\ EntryReturns(resolve_position_ticket(p, positions', lot, comment))
  /\ UNCHANGED <<tick, sym, nextTicket, op, lastReq, lastCode, newTicket, iocSent,
                 received, modVars, beDone>>
  /\ UNCHANGED otherVars

\* ------------------------------------------------ modify_stop_to_breakeven

PosIndex(ps, t) == CHOOSE i \in 1..Len(ps) : ps[i].ticket = t
HasTicket(ps, t) == \E i \in 1..Len(ps) : ps[i].ticket = t

\* manage_positions, main.py 131-134: a breakeven move for an open position.
CallBreakeven ==
  /\ op = "idle"
  /\ \E i \in 1..Len(positions) : argTicket' = positions[i].ticket
  /\ op' = "breakeven" /\ pc' = "b_start"
  /\ UNCHANGED <<venueVars, entryVars, iocSent, received, lastReq, lastCode, ok,
                 trail_price, mpos, mbid, caList, beDone>>
  /\ UNCHANGED otherVars

\* Lines 394-404 (and 479-489 of trail_stop): fetch the position, the symbol
\* info and the tick.
ModifyStart(name, first, second) ==
  /\ op = name /\ pc = first
  /\ \E feedOk \in BOOLEAN :
       IF HasTicket(positions, argTicket) /\ feedOk
       THEN /\ mpos' = positions[PosIndex(positions, argTicket)]
            /\ mbid' = tick
            /\ pc' = second
            /\ UNCHANGED ok
       ELSE /\ ok' = FALSE
            /\ pc' = "done"
            /\ UNCHANGED <<mpos, mbid>>
  /\ UNCHANGED <<venueVars, op, entryVars, iocSent, received, lastReq, lastCode,
                 argTicket, trail_price, caList, beDone>>
  /\ UNCHANGED otherVars

BeStart == ModifyStart("breakeven", "b_start", "b_send")

\* "current_tp or None"
TpOrNone(pos) == IF pos.tp # 0 THEN <<pos.tp>> ELSE <<>>

\* Lines 416-419 and 505-508: min_distance = max(freeze, stops) + point
MinDistance == Max(sym.freeze * Point, sym.stops * Point) + Point

\* Lines 421-428, 432-439 and 510-525: the stop is too close to the market the
\* action fetched (bid for LONG, ask for SHORT).
TooClose(direction, legal_sl, bid) ==
  IF direction = "LONG" THEN bid - legal_sl < MinDistance
  ELSE legal_sl - (bid + Spread) < MinDistance

\* Lines 429 and 440: pos.sl and abs(pos.sl - legal_sl) <= point * 0.5
AlreadySet(pos, legal_sl) == pos.sl # 0 /\ 2 * Abs(pos.sl - legal_sl) <= Point

\* The venue applies an accepted SL/TP modification to the position.
WithStops(ps, t, sl, tp) ==
  [i \in 1..Len(ps) |-> IF ps[i].ticket = t THEN [ps[i] EXCEPT !.sl = sl, !.tp = tp] ELSE ps[i]]

\* Lines 444-475 and 527-552: build the SLTP request, submit it once and turn
\* the answer into the return value.
ModifySubmit(name, legal_sl) ==
  \E c \in Codes :
    /\ lastReq' = [kind |-> name, price |-> 0, sl |-> legal_sl, tp |-> mpos.tp,
                   fill |-> "none", bid |-> tick]
    /\ lastCode' = c
    /\ received' = received + 1
    /\ ok' = ModifyOutcome(c)
    /\ positions' = IF c \in {"DONE", "PLACED"}
                    THEN WithStops(positions, argTicket, legal_sl, mpos.tp)
                    ELSE positions

\* Lines 406-475.
BeSend ==
  /\ op = "breakeven" /\ pc = "b_send"
  /\ \E available \in BOOLEAN :
       LET entry_price == mpos.price_open
           legal_sl == make_legal_sl_tp(mpos.type, entry_price, <<entry_price>>,
                                        TpOrNone(mpos), available)[1][1]
       IN IF TooClose(mpos.type, legal_sl, mbid)
          THEN /\ ok' = FALSE
               /\ UNCHANGED <<positions, lastReq, lastCode, received>>
          ELSE IF AlreadySet(mpos, legal_sl)
          THEN /\ ok' = TRUE
               /\ UNCHANGED <<positions, lastReq, lastCode, received>>
          ELSE ModifySubmit("breakeven", legal_sl)
  /\ pc' = "done"
  /\ UNCHANGED <<tick, sym, nextTicket, op, entryVars, iocSent, argTicket,
                 trail_price, mpos, mbid, caList, beDone>>
  /\ UNCHANGED otherVars

\* -------------------------------------------------------------- trail_stop

\* manage_positions, main.py 139-156: a trail candidate for an open position.
CallTrail ==
  /\ op = "idle"
  /\ \E i \in 1..Len(positions), t \in TrailPrices :
       /\ argTicket' = positions[i].ticket
       /\ trail_price' = t
  /\ op' = "trail" /\ pc' = "t_start"
  /\ UNCHANGED <<venueVars, entryVars, iocSent, received, lastReq, lastCode, ok,
                 mpos, mbid, caList, beDone>>
  /\ UNCHANGED otherVars

TrailStart == ModifyStart("trail", "t_start", "t_send")

\* Lines 493-498: the candidate does not improve on the current stop.
NotAnImprovement(pos, candidate) ==
  /\ pos.sl # 0
  /\ IF pos.type = "LONG" THEN candidate <= pos.sl ELSE candidate >= pos.sl

\* Lines 491-552.
TrailSend ==
  /\ op = "trail" /\ pc = "t_send"
  /\ \E available \in BOOLEAN :
       LET legal_sl == make_legal_sl_tp(mpos.type, mpos.price_open, <<trail_price>>,
                                        TpOrNone(mpos), available)[1][1]
       IN IF NotAnImprovement(mpos, trail_price) \/ TooClose(mpos.type, legal_sl, mbid)
          THEN /\ ok' = FALSE
               /\ UNCHANGED <<positions, lastReq, lastCode, received>>
          ELSE ModifySubmit("trail", legal_sl)
  /\ pc' = "done"
  /\ UNCHANGED <<tick, sym, nextTicket, op, entryVars, iocSent, argTicket,
                 trail_price, mpos, mbid, caList, beDone>>
  /\ UNCHANGED otherVars

\* ---------------------------------------------------------- close_position

\* manage_positions, main.py 195-196: cut a losing position.
CallClose ==
  /\ op = "idle"
  /\ \E i \in 1..Len(positions) : argTicket' = positions[i].ticket
  /\ op' = "close" /\ pc' = "c_send"
  /\ UNCHANGED <<venueVars, entryVars, iocSent, received, lastReq, lastCode, ok,
                 trail_price, mpos, mbid, caList, beDone>>
  /\ UNCHANGED otherVars

\* Where close_position returns to: its caller, or close_all's for loop.
AfterClose == IF op = "closeall" THEN "ca_next" ELSE "done"

\* Line 589, and the venue closing the position it answered DONE for.
CloseHandle(c) ==
  /\ ok' = CloseOutcome(c)
  /\ positions' = IF c \in {"DONE", "PLACED"} /\ HasTicket(positions, argTicket)
                  THEN Without(positions, PosIndex(positions, argTicket))
                  ELSE positions
  /\ pc' = AfterClose

\* Lines 556-586 and _send_deal's first order_send.
CloseSend ==
  /\ op \in {"close", "closeall"} /\ pc = "c_send"
  /\ \E tickOk \in BOOLEAN :
       IF HasTicket(positions, argTicket) /\ tickOk
       THEN \E c \in Codes :
              LET pos == positions[PosIndex(positions, argTicket)]
                  req == [kind |-> "close",
                          price |-> IF pos.type = "LONG" THEN tick ELSE Ask,
                          sl |-> 0, tp |-> 0, fill |-> "FOK", bid |-> tick]
              IN /\ lastReq' = req
                 /\ lastCode' = c
                 /\ received' = Bump(received)
                 /\ IF FillRejected(c)
                    THEN pc' = "c_fill" /\ UNCHANGED <<ok, positions>>
                    ELSE CloseHandle(c)
       ELSE /\ ok' = FALSE
            /\ pc' = AfterClose
            /\ UNCHANGED <<positions, lastReq, lastCode, received>>
  /\ UNCHANGED <<tick, sym, nextTicket, op, entryVars, iocSent, argTicket, trail_price,
                 mpos, mbid, caList, beDone>>
  /\ UNCHANGED otherVars

\* _send_deal, lines 292-294, for a close request.
CloseFill ==
  /\ op \in {"close", "closeall"} /\ pc = "c_fill"
  /\ \E c \in Codes :
       /\ lastReq' = [lastReq EXCEPT !.fill = "IOC"]
       /\ lastCode' = c
       /\ CloseHandle(c)
  /\ iocSent' = Bump(iocSent) /\ received' = Bump(received)
  /\ UNCHANGED <<tick, sym, nextTicket, op, entryVars, argTicket,
                 trail_price, mpos, mbid, caList, beDone>>
  /\ UNCHANGED otherVars

\* --------------------------------------------------------------- close_all

CallCloseAll ==
  /\ op = "idle"
  /\ op' = "closeall" /\ pc' = "ca_fetch"
  /\ UNCHANGED <<venueVars, entryVars, iocSent, received, lastReq, lastCode, modVars, beDone>>
  /\ UNCHANGED otherVars

\* Lines 603-607: fetch the open positions; return when there are none.
CaFetch ==
  /\ op = "closeall" /\ pc = "ca_fetch"
  /\ IF Len(positions) = 0
     THEN pc' = "done" /\ UNCHANGED caList
     ELSE /\ caList' = [i \in 1..Len(positions) |-> positions[i].ticket]
          /\ pc' = "ca_next"
  /\ UNCHANGED <<venueVars, op, entryVars, iocSent, received, lastReq, lastCode, ok,
                 argTicket, trail_price, mpos, mbid, beDone>>
  /\ UNCHANGED otherVars

\* Lines 608-613: close the next position of the fetched list; after the last
\* one, sleep and fetch again.
CaNext ==
  /\ op = "closeall" /\ pc = "ca_next"
  /\ IF caList = <<>>
     THEN pc' = "ca_fetch" /\ UNCHANGED <<argTicket, caList>>
     ELSE /\ argTicket' = Head(caList)
          /\ caList' = Tail(caList)
          /\ pc' = "c_send"
  /\ UNCHANGED <<venueVars, op, entryVars, iocSent, received, lastReq, lastCode, ok,
                 trail_price, mpos, mbid, beDone>>
  /\ UNCHANGED otherVars

\* ------------------------------------------------------------- the caller

\* The action returns to its caller; manage_positions (main.py 134-136) sets
\* breakeven_done when modify_stop_to_breakeven reported success.
Return ==
  /\ op = "breakeven" /\ pc = "done"
  /\ beDone' = IF ok THEN beDone \cup {argTicket} ELSE beDone
  /\ pc' = "returned"
  /\ UNCHANGED <<venueVars, op, entryVars, iocSent, received, lastReq, lastCode, modVars>>
  /\ UNCHANGED otherVars

\* --------------------------------------------------------------- the venue
progVars ==
  <<op, pc, dir, lot, comment, sl_price, tp_price, attempt, iocSent, received, price,
    lastReq, lastCode, preferred, newTicket, ticket, ok, argTicket, trail_price,
    mpos, mbid, caList, beDone>>

\* The market moves while an action runs.
TickMove ==
  /\ pc \in {"e_loop", "b_send", "t_send", "ca_next"}
  /\ tick' \in Bids \ {tick}
  /\ UNCHANGED <<sym, positions, nextTicket, progVars>>
  /\ UNCHANGED otherVars

\* The venue closes a position on its own (stop-out, SL or TP hit).
StopOut ==
  /\ pc \in {"b_send", "t_send", "ca_next"}
  /\ \E i \in 1..Len(positions) : positions' = Without(positions, i)
  /\ UNCHANGED <<tick, sym, nextTicket, progVars>>
  /\ UNCHANGED otherVars

Next ==
  \/ CallEntry \/ EntryStart \/ EntryExit \/ EntrySend \/ EntryFill \/ EntryResolve
  \/ CallBreakeven \/ BeStart \/ BeSend \/ Return
  \/ CallTrail \/ TrailStart \/ TrailSend
  \/ CallClose \/ CloseSend \/ CloseFill
  \/ CallCloseAll \/ CaFetch \/ CaNext
  \/ TickMove \/ StopOut

Spec == Init /\ [][Next]_vars

\* The steps of the program, as opposed to those of the venue.
Program ==
  \/ CallEntry \/ EntryStart \/ EntryExit \/ EntrySend \/ EntryFill \/ EntryResolve
  \/ CallBreakeven \/ BeStart \/ BeSend \/ Return
  \/ CallTrail \/ TrailStart \/ TrailSend
  \/ CallClose \/ CloseSend \/ CloseFill
  \/ CallCloseAll \/ CaFetch \/ CaNext

\* The interpreter keeps running the program while it has a step to take.
FairSpec == Spec /\ WF_vars(Program)

\* ================================================================ properties

\* An order_send call reached the venue in this step.
Submitted == received' # received
SingleOps == {"entry", "breakeven", "trail", "close"}

\* C1: one send_entry call makes at most MaxAttempts (three) counted
\* submissions: the attempt counter never exceeds the ceiling, no request is
\* submitted once the ceiling is reached, the venue receives at most three
\* requests that are not fill-mode resends, and from the ceiling the call can
\* only return.
C1_EntryAttemptCeiling ==
  [][ op = "entry" =>
        /\ attempt' <= MaxAttempts
        /\ received' - iocSent' <= MaxAttempts
        /\ (Submitted /\ pc = "e_loop") => attempt < MaxAttempts
        /\ (attempt = MaxAttempts /\ pc = "e_loop") => pc' \in {"e_loop", "done"} /\ ~Submitted
    ]_vars

\* Three counted rejections in a row: the ceiling is reached.
C1_Witness ==
  /\ op = "entry" /\ pc = "e_loop" /\ attempt = MaxAttempts
  /\ received - iocSent = MaxAttempts
  /\ lastCode \in {"REQUOTE", "FROZEN", "INVALID_STOPS"}

\* C2: every call of the executor comes back to its caller after finitely
\* many submissions, close_all included, whatever the venue answers.
C2_EveryCallReturns == (op # "idle") ~> (pc \in {"done", "returned"})
Accepted == {"DONE", "PLACED"}

\* C3: when the venue answered DONE or PLACED, send_entry returns the ticket
\* of the position it opened, which is not empty.
C3_ExecutedEntryReported ==
  (op = "entry" /\ pc = "done" /\ lastCode \in Accepted)
    => (ticket # NoTicket /\ ticket = newTicket)

\* C4: a missing answer, or a retcode outside the table, ends an entry, a
\* stop modification or a close at once: the call returns failure in the same
\* step, the venue's positions are untouched, and nothing is submitted after
\* the call has returned.
C4_AbortOnUnknownAnswer ==
  [][ /\ (op \in SingleOps /\ Submitted /\ lastCode' \in {"OTHER", "NONE"})
          => /\ pc' = "done"
             /\ positions' = positions
             /\ IF op = "entry" THEN ticket' = NoTicket ELSE ~ok'
      /\ (op \in SingleOps /\ pc \in {"done", "returned"}) => ~Submitted
    ]_vars

\* An entry was retried once, then hit an unknown retcode and returned None.
C4_Witness ==
  /\ op = "entry" /\ pc = "done" /\ lastCode = "OTHER"
  /\ received - iocSent = 2 /\ ticket = NoTicket

\* C5: an INVALID_STOPS answer to an entry or to a stop modification is
\* followed by a retry, not by the return of the call; and, the market
\* snapshot unchanged, the SL and TP of the request after an INVALID_STOPS
\* answer are each farther from the entry price than those rejected.
C5_InvalidStopsRetried ==
  [][ /\ (op \in {"entry", "breakeven", "trail"} /\ Submitted
             /\ lastCode' = "INVALID_STOPS")
          => pc' # "done"
      /\ (op = "entry" /\ Submitted /\ pc = "e_loop" /\ lastCode = "INVALID_STOPS"
             /\ attempt > 0 /\ tick = lastReq.bid)
          => IF dir = "LONG"
             THEN lastReq'.sl < lastReq.sl /\ lastReq'.tp > lastReq.tp
             ELSE lastReq'.sl > lastReq.sl /\ lastReq'.tp < lastReq.tp
    ]_vars

\* The price a fresh tick gives an entry.
FreshPrice == IF dir = "LONG" THEN tick + Spread ELSE tick

\* C6: every request of send_entry is priced from the tick of its own
\* iteration and carries the SL/TP legalized against that price; a REQUOTE
\* answer counts one attempt and leads back to the loop; and the retry after a
\* REQUOTE does not reuse the requoted price when the market has moved.
C6_RequoteRefetches ==
  [][ op = "entry" =>
        /\ (Submitted /\ pc = "e_loop")
             => /\ lastReq'.price = FreshPrice
                /\ \E available \in BOOLEAN :
                     LET adj == make_legal_sl_tp(dir, FreshPrice, <<sl_price>>,
                                                 <<tp_price>>, available)
                     IN lastReq'.sl = adj[1][1] /\ lastReq'.tp = adj[2][1]
        /\ (Submitted /\ lastCode' = "REQUOTE")
             => attempt' = attempt + 1 /\ pc' = "e_loop"
        /\ (Submitted /\ pc = "e_loop" /\ lastCode = "REQUOTE" /\ attempt > 0
               /\ tick # lastReq.bid)
             => lastReq'.price # lastReq.price
    ]_vars

\* The retry after a REQUOTE was requoted as well, and the market has moved
\* since: the next retry must not go out at the requoted price.
C6_Witness ==
  /\ op = "entry" /\ pc = "e_loop" /\ lastCode = "REQUOTE" /\ attempt = 2
  /\ received - iocSent = 2
  /\ tick # lastReq.bid /\ lastReq.price # FreshPrice

\* C7: a FROZEN answer to an entry or to a stop modification is followed by
\* a retry, not by the return of the call.
C7_FrozenRetried ==
  [][ (op \in {"entry", "breakeven", "trail"} /\ Submitted /\ lastCode' = "FROZEN")
        => pc' # "done" ]_vars

\* C8: a stop modification answered NO_CHANGES reports success, and the
\* caller records the breakeven as done.
C8_NoChangesIsSuccess ==
  (op \in {"breakeven", "trail"} /\ pc \in {"done", "returned"} /\ lastCode = "NO_CHANGES")
    => /\ ok
       /\ (op = "breakeven" /\ pc = "returned") => argTicket \in beDone

\* C9: over one entry or one close the venue receives at most one request
\* resent with the alternate fill mode.
C9_OneFillFallbackPerAction ==
  (op \in {"entry", "close"}) => iocSent <= 1

LegalDistance == (Max(sym.stops, sym.freeze) + 1) * Point

\* The direction of the position a request is about.
ReqDir == IF op = "entry" THEN dir ELSE mpos.type

\* The SL and TP of request r are on the correct side of, and far enough
\* from, their reference prices.
FarEnough(d, r, bid, ask) ==
  /\ r.sl # 0 => IF d = "LONG" THEN bid - r.sl >= LegalDistance
                               ELSE r.sl - ask >= LegalDistance
  /\ r.tp # 0 => IF d = "LONG" THEN r.tp - ask >= LegalDistance
                               ELSE bid - r.tp >= LegalDistance

\* C11: every SL and TP submitted in an entry request or in a modify-stops
\* request is, when it is submitted, at least max(stops, freeze) + 1 points
\* from its reference price (bid for a LONG SL and a SHORT TP, ask for a LONG
\* TP and a SHORT SL), on the correct side.
C11_SubmittedStopsLegal ==
  [][ (Submitted /\ op \in {"entry", "breakeven", "trail"})
        => FarEnough(ReqDir, lastReq', tick, Ask) ]_vars

\* C14: every SL a trail action submits is strictly more favourable than the
\* position's current SL (higher for LONG, lower for SHORT).
C14_TrailOnlyTightens ==
  [][ (Submitted /\ op = "trail" /\ mpos.sl # 0)
        => IF mpos.type = "LONG" THEN lastReq'.sl > mpos.sl
                                 ELSE lastReq'.sl < mpos.sl ]_vars
\* ------------------------------------------- make_legal_sl_tp on its own

\* The snapshots and arguments make_legal_sl_tp is applied to: bid and entry
\* price on the price grid (the venue quotes in points), proposals anywhere.
LzBids == {20 * Point, 21 * Point}
LzEntries == {18 * Point, 21 * Point, 23 * Point}
LzProposals == {<<>>} \cup {<<x>> : x \in (15 * Point)..(27 * Point)}
LzSymbolInfos ==
  SymbolInfos \cup {[stops |-> 0, freeze |-> 0, vmin |-> 10, vmax |-> 50, vstep |-> 10]}

\* The scenario: bid 2400.00, entry 2400.30, stops 50, freeze 20, point 0.01,
\* proposed SL 2399.95.
ScenarioSym == [stops |-> 50, freeze |-> 20, vmin |-> 10, vmax |-> 50, vstep |-> 10]
ScenarioArgs ==
  [stage |-> "in", direction |-> "LONG", entry_price |-> 240030 * Point,
   sl |-> <<239995 * Point>>, tp |-> <<>>, available |-> TRUE,
   out1 |-> <<>>, out2 |-> <<>>]

LzInit ==
  /\ \/ /\ tick \in LzBids
        /\ sym \in LzSymbolInfos
        /\ \E d \in Dirs, e \in LzEntries, s \in LzProposals, t \in LzProposals,
              a \in BOOLEAN :
              lz = [stage |-> "in", direction |-> d, entry_price |-> e, sl |-> s,
                    tp |-> t, available |-> a, out1 |-> <<>>, out2 |-> <<>>]
     \/ /\ tick = 240000 * Point
        /\ sym = ScenarioSym
        /\ lz = ScenarioArgs
  /\ positions = <<>> /\ nextTicket = 1
  /\ op = "legalize" /\ pc = "idle"
  /\ ExecRest
  /\ CtlRest
  /\ ladder = LadderRest /\ calc = CalcRest

\* Lines 76-140, called with the arguments of lz.
LzApply ==
  /\ lz.stage = "in"
  /\ lz' = [lz EXCEPT !.stage = "once",
                      !.out1 = make_legal_sl_tp(lz.direction, lz.entry_price, lz.sl,
                                                lz.tp, lz.available)]
  /\ UNCHANGED <<execVars, ctlVars, riskVars>>

\* Lines 76-140, called again with its own result and the same snapshot.
LzReapply ==
  /\ lz.stage = "once"
  /\ lz' = [lz EXCEPT !.stage = "twice",
                      !.out2 = make_legal_sl_tp(lz.direction, lz.entry_price,
                                                lz.out1[1], lz.out1[2], lz.available)]
  /\ UNCHANGED <<execVars, ctlVars, riskVars>>

LzNext == LzApply \/ LzReapply

LegalizeSpec == LzInit /\ [][LzNext]_vars

\* C12: make_legal_sl_tp applied to its own output, with the same direction,
\* entry price and market snapshot, returns that output.
C12_LegalizeIdempotent ==
  lz.stage = "twice" => lz.out2 = lz.out1

\* Both proposals were too close, were moved, and a second call kept them.
C12_Witness ==
  /\ lz.stage = "twice" /\ lz.available
  /\ lz.sl # <<>> /\ lz.tp # <<>>
  /\ lz.out1[1] # lz.sl /\ lz.out1[2] # lz.tp
  /\ lz.out2 = lz.out1

\* x is p normalised to the price grid.
Normalised(x, p) == x % Point = 0 /\ 2 * Abs(x - p) <= Point

\* C13: with symbol info and tick available, the SL that make_legal_sl_tp
\* returns is at most min(bid - minDistance, entry - point) for LONG and at
\* least max(ask + minDistance, entry + point) for SHORT, the TP mirrors it
\* (ask for LONG, bid for SHORT), and a proposal that already satisfies its
\* bound comes back unchanged up to normalisation.  In the scenario the SL
\* 2399.95 comes back as 2399.49.
C13_LegalBounds ==
  (lz.stage \in {"once", "twice"} /\ lz.available) =>
    LET e == lz.entry_price
        lo == Min(tick - LegalDistance, e - Point)
        hi == Max(Ask + LegalDistance, e + Point)
        long == lz.direction = "LONG"
    IN /\ lz.sl # <<>> =>
            LET p == lz.sl[1]
                x == lz.out1[1][1]
            IN IF long THEN x <= lo /\ (p <= lo => Normalised(x, p))
                       ELSE x >= hi /\ (p >= hi => Normalised(x, p))
       /\ lz.tp # <<>> =>
            LET p == lz.tp[1]
                x == lz.out1[2][1]
            IN IF long THEN x >= hi /\ (p >= hi => Normalised(x, p))
                       ELSE x <= lo /\ (p <= lo => Normalised(x, p))
       /\ (lz.sl = <<>>) = (lz.out1[1] = <<>>)
       /\ (lz.tp = <<>>) = (lz.out1[2] = <<>>)
       /\ (sym = ScenarioSym /\ lz.sl = <<239995 * Point>>)
            => lz.out1[1] = <<239949 * Point>>

\* The scenario was legalized: SL 2399.95 became 2399.49.
C13_Witness ==
  /\ lz.stage = "once" /\ sym = ScenarioSym /\ tick = 240000 * Point
  /\ lz.sl = <<239995 * Point>> /\ lz.out1[1] = <<239949 * Point>>
\* C31: when the counted attempts of an entry are used up on REQUOTE, FROZEN
\* or INVALID_STOPS answers, the next step send_entry takes is its return,
\* with no ticket, no further request and no position opened.
C31_ExhaustedEntryReturnsNone ==
  [][ (op = "entry" /\ pc = "e_loop" /\ attempt = MaxAttempts
         /\ lastCode \in {"REQUOTE", "FROZEN", "INVALID_STOPS"}
         /\ (pc' # pc \/ received' # received))
        => /\ pc' = "done" /\ ticket' = NoTicket
           /\ received' = received /\ nextTicket' = nextTicket ]_vars

\* send_entry has returned no ticket after MaxAttempts requests, the last
\* of them answered INVALID_STOPS.
C31_Witness ==
  /\ op = "entry" /\ pc = "done" /\ ticket = NoTicket
  /\ received = MaxAttempts /\ iocSent = 0 /\ lastCode = "INVALID_STOPS"

\* ---------------------------------------------------- main.py: the control loop

\* The venue holds at most MaxOpen positions of the symbol at a time.
MaxOpen == 2

\* main.py 160: hedging is a single hedge (ALLOW_SINGLE_HEDGE, hedge_used).
MaxHedgeLayers == 1

\* main.py 320: CFG["MAX_TRADES_PER_DAY"].
MaxTradesPerDay == 1

\* main.py 46: CFG["ENTRY_COOLDOWN_SEC"], in ticks of the loop.
CooldownTicks == 2

\* Calendar dates, as far as two consecutive days differ.
Days == {0, 1}
NextDay(d) == 1 - d

\* The account equity read on the first tick of a day.
EquityOn(d) == 1000 + 41 * d

\* The symbol the control loop trades.
CtlSym == [stops |-> 2, freeze |-> 0, vmin |-> 10, vmax |-> 50, vstep |-> 10]

\* Every guard of main.py taken as passed: --dryrun ignored.
LiveAlways == TRUE

\* main.py 133, 155, 174, 195 and 266: orders are sent unless --dryrun is set.
Live == ~dryrun

\* The registry entry of a position not seen before (main.py 94 and 122);
\* direction is left out.
NewTrade == [r_value |-> 0, breakeven_done |-> FALSE, trail_started |-> FALSE]

\* main.py 97-98, 187 and 279: a stop distance times the lot, at one dollar
\* per unit of price.
RiskOf(stop_distance, volume) == stop_distance * volume

\* main.py 167: the stop distance a hedge is sized by, SL_ATR_MULT times ATR.
HedgeStopDistance == 3 * Point

Put(f, k, v) == [x \in DOMAIN f \cup {k} |-> IF x = k THEN v ELSE f[x]]

\* The position the venue opens for an entry or a hedge of the control loop.
CtlPos(t, d, c) ==
  [ticket |-> t, type |-> d, volume |-> 10, comment |-> c, magic |-> MAGIC,
   price_open |-> 20 * Point, sl |-> 18 * Point, tp |-> 0]

\* initialize_day without the reset of the trade counter.
initialize_day_keeping_count(st, equity, today) ==
  [st EXCEPT !.daily_start_equity = <<equity>>, !.baseline_date = <<today>>,
             !.hedge_used = FALSE]

\* main.py 34-39.
initialize_day(st, equity, today) ==
  [st EXCEPT !.daily_start_equity = <<equity>>, !.baseline_date = <<today>>,
             !.trades_today = 0, !.hedge_used = FALSE]

\* update_trade_registry computing the initial risk anew on every tick.
update_trade_registry_recomputing(st, ps) ==
  [st EXCEPT
     !.open_trades =
       [t \in TicketsOf(ps) |->
          LET pos == ps[PosIndex(ps, t)]
              info == IF t \in DOMAIN st.open_trades THEN st.open_trades[t] ELSE NewTrade
          IN [info EXCEPT !.r_value = RiskOf(Abs(pos.price_open - pos.sl), pos.volume)]],
     !.hedge_used = IF ps = <<>> THEN FALSE ELSE st.hedge_used]

\* main.py 84-99.
update_trade_registry(st, ps) ==
  LET active == TicketsOf(ps)
      kept == st.open_trades
  IN [st EXCEPT
        !.open_trades =
          [t \in active |->
             LET pos == ps[PosIndex(ps, t)]
                 info == IF t \in DOMAIN kept THEN kept[t] ELSE NewTrade
             IN IF info.r_value <= 0 /\ pos.sl # 0
                THEN [info EXCEPT !.r_value = RiskOf(Abs(pos.price_open - pos.sl), pos.volume)]
                ELSE info],
        !.hedge_used = IF ps = <<>> THEN FALSE ELSE st.hedge_used]

\* main.py 42-46; last_entry_ts is kept as the ticks elapsed since the stamp,
\* counted up to CooldownTicks.
cooldown_ready(st) ==
  st.last_entry_ts = <<>> \/ st.last_entry_ts[1] >= CooldownTicks

\* One tick's sleep has passed since the last stamp (main.py 357).
Elapse(st) ==
  [st EXCEPT !.last_entry_ts =
     IF @ = <<>> THEN <<>> ELSE <<Min(@[1] + 1, CooldownTicks)>>]

\* risk.max_trades_reached(trades_today, max_trades), called at main.py 320.
max_trades_reached(trades_today, max_trades) == trades_today >= max_trades

\* The hedge count of the basket after the venue's positions became ps.
Layers(ps, h) == IF ps = <<>> THEN 0 ELSE h

\* The ticket the venue gives the next position: one that neither an open
\* position nor the registry nor the tick's fetched list still uses.
FreshTicket ==
  LET used == TicketsOf(positions) \cup DOMAIN state.open_trades \cup TicketsOf(loop.todo)
  IN CHOOSE n \in 1..(2 * MaxOpen + 1) :
       n \notin used /\ \A m \in 1..(n - 1) : m \in used

\* main.py 289-298: the loop starts after initialize_day; positions of an
\* earlier run may be open.
CtlInit ==
  /\ tick = 20 * Point /\ sym = CtlSym
  /\ positions \in {<<>>, <<CtlPos(1, "LONG", "ScalperEntry")>>}
  /\ nextTicket = 1
  /\ op = "control" /\ pc = "idle"
  /\ ExecRest
  /\ lz = LzRest /\ ladder = LadderRest /\ calc = CalcRest
  /\ state = initialize_day(StateRest, EquityOn(0), 0)
  /\ dryrun \in BOOLEAN
  /\ loop = [pc |-> "fetch", todo |-> <<>>,
             atr |-> FALSE, kill |-> FALSE, event |-> "none", call |-> "none",
             request |-> FALSE, success |-> FALSE]
  /\ hedgeLayers = 0

ctlFrame == <<sym, nextTicket, op, pc, dir, lot, comment, sl_price, tp_price,
              attempt, iocSent, received, price, lastReq, lastCode, preferred,
              newTicket, ticket, ok, argTicket, trail_price, mpos, mbid, caList,
              beDone, lz, dryrun, ladder, calc>>

\* main.py 302-351: one tick begins.  Time has passed and the date may have
\* changed; the equity is read and the day rolled over if the date differs
\* from the baseline date; the market (ATR available or not) and the
\* positions are fetched and the registry updated.  kill says that the floating basket loss has
\* reached killPct of the equity.  With failed, a call after line 305 raises
\* and the tick ends in the except clause of line 358.
CtlFetch ==
  /\ loop.pc = "fetch"
  /\ \E newday \in BOOLEAN,
        atrOk \in BOOLEAN, kill \in BOOLEAN, failed \in BOOLEAN :
       LET today == IF newday THEN NextDay(state.baseline_date[1])
                    ELSE state.baseline_date[1]
           fetched == positions
           aged == Elapse(state)
           rolled == IF aged.baseline_date # <<today>>
                     THEN initialize_day(aged, EquityOn(today), today) ELSE aged
       IN /\ kill => fetched # <<>>
          /\ IF failed
             THEN /\ state' = rolled
                  /\ loop' = [pc |-> "fetch", todo |-> <<>>,
                              atr |-> FALSE, kill |-> FALSE,
                              event |-> "ERROR", call |-> "none",
                              request |-> FALSE, success |-> FALSE]
             ELSE /\ state' = update_trade_registry(rolled, fetched)
                  /\ loop' = [pc |-> IF fetched = <<>> THEN "entry" ELSE "manage",
                              todo |-> fetched, atr |-> atrOk, kill |-> kill,
                              event |-> "none", call |-> "none",
                              request |-> FALSE, success |-> FALSE]
  /\ UNCHANGED <<ctlFrame, tick, positions, hedgeLayers>>

\* The position manage_positions is at, and its registry entry (main.py 120-123).
CurPos == Head(loop.todo)
TradeInfo ==
  IF CurPos.ticket \in DOMAIN state.open_trades THEN state.open_trades[CurPos.ticket]
  ELSE NewTrade

\* The loop moves to the next position, or out of manage_positions after the
\* last one; ev is the action decided, call the executor function called, req
\* whether it sent a request to the venue, and res its result.
Advance(ev, call, req, res) ==
  LET last == Tail(loop.todo) = <<>>
  IN loop' = [loop EXCEPT !.pc = IF last THEN "entry" ELSE "manage",
                          !.todo = Tail(loop.todo),
                          !.kill = loop.kill /\ ~last,
                          !.event = ev, !.call = call, !.request = req,
                          !.success = res]

\* main.py 197: state["open_trades"][ticket] = trade_info
WriteBack(st, info) == [st EXCEPT !.open_trades = Put(st.open_trades, CurPos.ticket, info)]

\* main.py 124-131 and 197: HOLD, or BREAKEVEN_SL when breakeven is done.
CtlHold ==
  /\ loop.pc = "manage"
  /\ \E ev \in {"HOLD", "BREAKEVEN_SL"} :
       /\ ev = "BREAKEVEN_SL" => TradeInfo.breakeven_done
       /\ Advance(ev, "none", FALSE, FALSE)
  /\ state' = WriteBack(state, TradeInfo)
  /\ UNCHANGED <<ctlFrame, tick, positions, hedgeLayers>>

\* main.py 131-138: BREAKEVEN_SL with breakeven not done yet; success is the
\* result of modify_stop_to_breakeven and request whether it sent a request.
CtlBreakeven ==
  /\ loop.pc = "manage"
  /\ ~TradeInfo.breakeven_done
  /\ IF ~Live
     THEN /\ state' = WriteBack(state, [TradeInfo EXCEPT !.breakeven_done = TRUE])
          /\ Advance("BREAKEVEN_SL", "none", FALSE, FALSE)
     ELSE \E request \in BOOLEAN, success \in BOOLEAN :
            /\ state' = WriteBack(state, [TradeInfo EXCEPT !.breakeven_done = success])
            /\ Advance("BREAKEVEN_SL", "breakeven", request, success)
  /\ UNCHANGED <<ctlFrame, tick, positions, hedgeLayers>>

\* main.py 139-157.
CtlTrail ==
  /\ loop.pc = "manage"
  /\ \E tickOk \in BOOLEAN :
       IF ~loop.atr \/ ~tickOk
       THEN /\ Advance("TRAIL", "none", FALSE, FALSE)
            /\ UNCHANGED state
       ELSE /\ state' = WriteBack(state, [TradeInfo EXCEPT !.trail_started = TRUE])
            /\ IF ~Live THEN Advance("TRAIL", "none", FALSE, FALSE)
               ELSE \E success \in BOOLEAN : Advance("TRAIL", "trail", TRUE, success)
  /\ UNCHANGED <<ctlFrame, tick, positions, hedgeLayers>>

\* What send_entry gives its caller: the venue opened the position and its
\* ticket came back; the venue opened it and None came back (lines 360-363
\* of broker.py); or the venue opened nothing.
EntryOutcomes == {"ticket", "lost", "rejected"}

\* main.py 183-185 and 272-273: the counters after an entry returned a ticket.
Entered(st) ==
  [st EXCEPT !.trades_today = @ + 1, !.last_entry_ts = <<0>>]

\* main.py 158-193 and 197: CUT_OR_HEDGE with the hedge still unused.
CtlHedge ==
  /\ loop.pc = "manage"
  /\ ~state.hedge_used /\ loop.atr
  /\ \E tickOk \in BOOLEAN, o \in EntryOutcomes :
       LET hdir == IF CurPos.type = "LONG" THEN "SHORT" ELSE "LONG"
           filled == o # "rejected"
       IN IF ~tickOk
          THEN /\ state' = WriteBack(state, TradeInfo)
               /\ Advance("CUT_OR_HEDGE", "none", FALSE, FALSE)
               /\ UNCHANGED <<positions, hedgeLayers>>
          ELSE IF ~Live
          THEN /\ state' = WriteBack([state EXCEPT !.hedge_used = TRUE], TradeInfo)
               /\ Advance("CUT_OR_HEDGE", "none", FALSE, FALSE)
               /\ UNCHANGED <<positions, hedgeLayers>>
          ELSE /\ filled => /\ Len(positions) < MaxOpen
                            /\ hedgeLayers <= MaxHedgeLayers
                            /\ state.trades_today <= MaxTradesPerDay
               /\ positions' = IF filled
                                THEN Append(positions, CtlPos(FreshTicket, hdir, "HEDGE"))
                                ELSE positions
               /\ hedgeLayers' = IF filled THEN hedgeLayers + 1 ELSE hedgeLayers
               /\ state' =
                    WriteBack(IF o = "ticket"
                              THEN [Entered(state) EXCEPT
                                      !.hedge_used = TRUE,
                                      !.open_trades =
                                        Put(@, FreshTicket,
                                            [NewTrade EXCEPT !.r_value =
                                               RiskOf(HedgeStopDistance, CurPos.volume)])]
                              ELSE state,
                              TradeInfo)
               /\ Advance("CUT_OR_HEDGE", "hedge", TRUE, o = "ticket")
  /\ UNCHANGED <<ctlFrame, tick>>

\* main.py 194-197: CUT_OR_HEDGE with the hedge used up or no ATR.
CtlCut ==
  /\ loop.pc = "manage"
  /\ state.hedge_used \/ ~loop.atr
  /\ state' = WriteBack(state, TradeInfo)
  /\ IF ~Live
     THEN /\ Advance("CUT_OR_HEDGE", "none", FALSE, FALSE)
          /\ UNCHANGED <<positions, hedgeLayers>>
     ELSE \E success \in BOOLEAN :
            /\ positions' = IF success /\ HasTicket(positions, CurPos.ticket)
                             THEN Without(positions, PosIndex(positions, CurPos.ticket))
                             ELSE positions
            /\ hedgeLayers' = Layers(positions', hedgeLayers)
            /\ Advance("CUT_OR_HEDGE", "close", TRUE, success)
  /\ UNCHANGED <<ctlFrame, tick>>

\* main.py 353-357 and 200-286: attempt_entry, then the sleep.  clear says
\* that the gates of main other than the trade cap (ATR, spread, daily stop)
\* are open and that attempt_entry passes its regime, lot and tick checks.
CtlEntry ==
  /\ loop.pc = "entry"
  /\ \E clear \in BOOLEAN, d \in Dirs, o \in EntryOutcomes :
       LET filled == o # "rejected"
           done(call, res) == loop' = [loop EXCEPT !.pc = "fetch", !.kill = FALSE,
                                                 !.atr = FALSE, !.event = "ENTRY",
                                                 !.call = call, !.request = res,
                                                 !.success = res]
       IN IF ~( /\ clear /\ loop.atr
                /\ ~max_trades_reached(state.trades_today, MaxTradesPerDay)
                /\ DOMAIN state.open_trades = {}
                /\ cooldown_ready(state) )
          THEN /\ loop' = [loop EXCEPT !.pc = "fetch", !.kill = FALSE, !.atr = FALSE,
                                       !.event = "ENTRY", !.call = "none",
                                       !.request = FALSE, !.success = FALSE]
               /\ UNCHANGED <<state, positions>>
          ELSE IF ~Live
          THEN /\ state' = [state EXCEPT !.last_entry_ts = <<0>>]
               /\ loop' = [loop EXCEPT !.pc = "fetch", !.kill = FALSE, !.atr = FALSE,
                                       !.event = "ENTRY", !.call = "none",
                                       !.request = FALSE, !.success = FALSE]
               /\ UNCHANGED positions
          ELSE /\ filled => Len(positions) < MaxOpen
               /\ positions' = IF filled
                                THEN Append(positions, CtlPos(FreshTicket, d, "ScalperEntry"))
                                ELSE positions
               /\ state' = IF o = "ticket"
                            THEN [Entered(state) EXCEPT
                                    !.hedge_used = FALSE,
                                    !.open_trades =
                                      LET pos == CtlPos(FreshTicket, d, "ScalperEntry")
                                      IN Put(@, FreshTicket,
                                             [NewTrade EXCEPT !.r_value =
                                                RiskOf(Abs(pos.price_open - pos.sl), pos.volume)])]
                            ELSE state
               /\ loop' = [loop EXCEPT !.pc = "fetch", !.kill = FALSE, !.atr = FALSE,
                                       !.event = "ENTRY", !.call = "entry",
                                       !.request = TRUE, !.success = (o = "ticket")]
  /\ UNCHANGED <<ctlFrame, tick, hedgeLayers>>

\* main.py 358-360: a call inside manage_positions or attempt_entry raises;
\* the tick ends in the except clause.
CtlRaise ==
  /\ loop.pc \in {"manage", "entry"}
  /\ loop' = [loop EXCEPT !.pc = "fetch", !.todo = <<>>, !.kill = FALSE,
                          !.atr = FALSE, !.event = "ERROR", !.call = "none",
                          !.request = FALSE, !.success = FALSE]
  /\ UNCHANGED <<ctlFrame, tick, state, positions, hedgeLayers>>

\* Between two ticks the venue closes a position on its own (SL or TP hit).
CtlStopOut ==
  /\ loop.pc = "fetch"
  /\ \E i \in 1..Len(positions) : positions' = Without(positions, i)
  /\ hedgeLayers' = Layers(positions', hedgeLayers)
  /\ UNCHANGED <<ctlFrame, tick, state, loop>>

CtlNext ==
  \/ CtlFetch \/ CtlHold \/ CtlBreakeven \/ CtlTrail \/ CtlHedge \/ CtlCut
  \/ CtlEntry \/ CtlRaise \/ CtlStopOut

CtlSpec == CtlInit /\ [][CtlNext]_vars

C20_KillSwitchFirst ==
  [][ /\ (loop.pc = "fetch" /\ loop'.pc # "fetch" /\ loop'.kill)
          => (positions' = <<>> /\ hedgeLayers' = 0 /\ ~state'.hedge_used)
      /\ (loop.pc = "manage" /\ loop.kill) => loop'.call = "none" ]_vars

C26_DryRunSendsNothing ==
  [][ (dryrun /\ loop.pc \in {"manage", "entry"}) =>
        /\ loop'.call = "none" /\ ~loop'.request
        /\ positions' = positions ]_vars

\* A dry-run tick has decided CUT_OR_HEDGE for an open position and marked
\* the hedge as used without opening one.
C26_Witness ==
  /\ dryrun /\ loop.event = "CUT_OR_HEDGE" /\ state.hedge_used
  /\ Len(positions) = 1 /\ loop.call = "none"

\* C36: a tick's update_trade_registry leaves the registry with exactly the
\* tickets of the positions the venue reported; an entry that was there
\* before keeps its flags and its positive initial risk; and hedge_used is
\* cleared when no position is open.
C36_RegistryMatchesVenue ==
  [][ (loop.pc = "fetch" /\ loop'.pc # "fetch") =>
        /\ DOMAIN state'.open_trades = TicketsOf(loop'.todo)
        /\ \A t \in DOMAIN state'.open_trades \cap DOMAIN state.open_trades :
             LET old == state.open_trades[t]
                 new == state'.open_trades[t]
             IN /\ new.breakeven_done = old.breakeven_done
                /\ new.trail_started = old.trail_started
                /\ old.r_value > 0 => new.r_value = old.r_value
        /\ loop'.todo = <<>> => ~state'.hedge_used ]_vars

\* A tick has fetched two positions: the registry holds a hedge with the
\* initial risk it was sized by, which differs from its present stop
\* distance, and an entry whose breakeven is done.
C36_Witness ==
  /\ loop.pc = "manage" /\ Len(loop.todo) = 2
  /\ DOMAIN state.open_trades = TicketsOf(positions)
  /\ \E t \in DOMAIN state.open_trades :
       state.open_trades[t].r_value = RiskOf(HedgeStopDistance, 10)
  /\ \E t \in DOMAIN state.open_trades : state.open_trades[t].breakeven_done

\* ------------------------------- main.py and broker.py: breakeven of a ticket

\* A position in profit at both bids, with the stop it was opened with.
BePos(d) ==
  [ticket |-> 1, type |-> d, volume |-> 10, comment |-> "ScalperEntry",
   magic |-> MAGIC,
   price_open |-> IF d = "LONG" THEN 19 * Point ELSE 24 * Point,
   sl |-> IF d = "LONG" THEN 15 * Point ELSE 28 * Point, tp |-> 0]

\* The stop of the position is still the one it was opened with: no
\* breakeven modification has been executed for it.
InitialStop(pos) == pos.sl = BePos(pos.type).sl

\* main.py 289-298 with one position of the program open.
BeInit ==
  /\ tick \in Bids /\ sym = CtlSym
  /\ \E d \in Dirs : positions = <<BePos(d)>>
  /\ nextTicket = 1
  /\ op = "breakeven" /\ pc = "idle"
  /\ ExecRest
  /\ lz = LzRest /\ ladder = LadderRest /\ calc = CalcRest
  /\ state = initialize_day(StateRest, EquityOn(0), 0)
  /\ dryrun = FALSE
  /\ loop = [pc |-> "fetch", todo |-> <<>>,
             atr |-> FALSE, kill |-> FALSE, event |-> "none", call |-> "none",
             request |-> FALSE, success |-> FALSE]
  /\ hedgeLayers = 0

\* main.py 302-311 on a later tick of the same day: the price has moved, and
\* get_positions (broker.py 249-253) gives the open positions or, when
\* positions_get gives None, the empty list; update_trade_registry follows.
BeFetch ==
  /\ loop.pc = "fetch"
  /\ \E b \in Bids, answered \in BOOLEAN :
       LET fetched == IF answered THEN positions ELSE <<>>
       IN /\ tick' = b
          /\ state' = update_trade_registry(Elapse(state), fetched)
          /\ loop' = [pc |-> IF fetched = <<>> THEN "entry" ELSE "manage",
                      todo |-> fetched, atr |-> FALSE, kill |-> FALSE,
                      event |-> "none", call |-> "none",
                      request |-> FALSE, success |-> FALSE]
  /\ UNCHANGED <<ctlFrame, positions, hedgeLayers>>

\* main.py 131-138 with modify_stop_to_breakeven, broker.py 393-475, outside
\* dry-run: the position is looked up again and the symbol and tick read
\* (394-404, found), the entry price legalized as stop against the tick, a
\* stop too close to the market refused (421-428, 432-439), a stop already
\* there reported as success (429-431, 440-442), and otherwise the request
\* sent (444-456), which the venue executes (done) or not.
BeBreakeven ==
  /\ loop.pc = "manage"
  /\ ~TradeInfo.breakeven_done
  /\ Live
  /\ \E found \in BOOLEAN, done \in BOOLEAN :
       LET i == PosIndex(positions, CurPos.ticket)
           pos == positions[i]
           legal_sl == make_legal_sl_tp(pos.type, pos.price_open,
                                        <<pos.price_open>>, TpOrNone(pos), TRUE)[1][1]
           close == TooClose(pos.type, legal_sl, tick)
           sends == found /\ ~close /\ ~AlreadySet(pos, legal_sl)
           success == found /\ ~close /\ (AlreadySet(pos, legal_sl) \/ done)
       IN /\ positions' = IF sends /\ done
                          THEN WithStops(positions, pos.ticket, legal_sl, pos.tp)
                          ELSE positions
          /\ state' = WriteBack(state, [TradeInfo EXCEPT !.breakeven_done = success])
          /\ Advance("BREAKEVEN_SL", "breakeven", sends, success)
  /\ UNCHANGED <<ctlFrame, tick, hedgeLayers>>

\* main.py 353-357: no entry while the registry holds a position or a gate
\* is closed; the loop sleeps.
BeSleep ==
  /\ loop.pc = "entry"
  /\ loop' = [loop EXCEPT !.pc = "fetch", !.event = "ENTRY", !.call = "none",
                          !.request = FALSE, !.success = FALSE]
  /\ UNCHANGED <<ctlFrame, tick, state, positions, hedgeLayers>>

BeNext == BeFetch \/ CtlHold \/ BeBreakeven \/ BeSleep

BeSpec == BeInit /\ [][BeNext]_vars

MaxLayers == 3

\* A lock episode is followed for MaxRecoveries recovery decisions.
MaxRecoveries == 2

\* filters.py 236: the regimes.
MarketStates == {"TREND_LONG", "TREND_SHORT", "RANGING", "UNSURE"}

\* Basket PnL, in dollars.
Pnls == {0 - 2, 0 - 1, 0, 1}

\* plan_new_entry without its lock test.
plan_new_entry_unlocked(market_state, spread_ok, locked_mode, hedge_layers) ==
  IF ~spread_ok THEN "NO_TRADE"
  ELSE IF hedge_layers > 0 THEN "NO_TRADE"
  ELSE IF market_state = "TREND_LONG" THEN "LONG"
  ELSE IF market_state = "TREND_SHORT" THEN "SHORT"
  ELSE "NO_TRADE"

\* risk.py 64-79.
plan_new_entry(market_state, spread_ok, locked_mode, hedge_layers) ==
  IF ~spread_ok \/ locked_mode THEN "NO_TRADE"
  ELSE IF hedge_layers > 0 THEN "NO_TRADE"
  ELSE IF market_state = "TREND_LONG" THEN "LONG"
  ELSE IF market_state = "TREND_SHORT" THEN "SHORT"
  ELSE "NO_TRADE"

\* risk.py 114-121.
hedge_controller(hedge_layers, max_layers) ==
  IF hedge_layers < max_layers THEN "ADD_HEDGE" ELSE "ENTER_LOCK"

\* lock_mode_controller testing the breakout before the basket PnL.
lock_mode_controller_breakout_first(total_pnl, locked_loss_value, breakout_confirmed) ==
  IF breakout_confirmed THEN "TAKE_RECOVERY_TRADE"
  ELSE IF total_pnl >= 0 THEN "CLOSE_ALL_AND_RESET"
  ELSE "WAIT"

\* risk.py 127-139.
lock_mode_controller(total_pnl, locked_loss_value, breakout_confirmed) ==
  IF total_pnl >= 0 THEN "CLOSE_ALL_AND_RESET"
  ELSE IF breakout_confirmed THEN "TAKE_RECOVERY_TRADE"
  ELSE "WAIT"

\* risk.py 145-155 (daily_start_equity left out), with the record of the
\* last call: the controller called, its inputs, its decision, the order the
\* decision leads to, and the recovery decisions of the lock episode.
reset_all ==
  [hedge_layers |-> 0, locked_mode |-> FALSE, locked_loss_value |-> 0,
   call |-> "reset_all", market |-> "UNSURE", spread_ok |-> FALSE,
   pnl |-> 0, breakout |-> FALSE,
   decision |-> "none", order |-> "none", recoveries |-> 0]

LadderInit ==
  /\ tick = 20 * Point /\ sym = ScenarioSym
  /\ positions = <<>> /\ nextTicket = 1
  /\ op = "ladder" /\ pc = "idle"
  /\ ExecRest
  /\ lz = LzRest
  /\ CtlRest
  /\ calc = CalcRest
  /\ ladder = reset_all

\* A tick's entry decision: plan_new_entry on the regime, the spread state
\* and the state dict; LONG or SHORT is followed by an ordinary entry order.
LdPlan ==
  /\ \E m \in MarketStates, sp \in BOOLEAN :
       LET d == plan_new_entry(m, sp, ladder.locked_mode, ladder.hedge_layers)
       IN ladder' = [ladder EXCEPT !.call = "plan_new_entry", !.market = m,
                                   !.spread_ok = sp, !.decision = d,
                                   !.order = IF d = "NO_TRADE" THEN "none" ELSE "ENTRY"]
  /\ UNCHANGED <<execVars, lz, ctlVars, calc>>

\* A CUT_OR_HEDGE event while unlocked: hedge_controller on the state dict;
\* ADD_HEDGE opens a hedge and counts it, ENTER_LOCK locks the controller at
\* the basket's loss.
LdHedge ==
  /\ ~ladder.locked_mode
  /\ \E pnl \in {x \in Pnls : x < 0} :
       LET d == hedge_controller(ladder.hedge_layers, MaxLayers)
       IN ladder' =
            IF d = "ADD_HEDGE"
            THEN [ladder EXCEPT !.call = "hedge_controller", !.decision = d,
                                !.order = "HEDGE", !.hedge_layers = @ + 1]
            ELSE [ladder EXCEPT !.call = "hedge_controller", !.decision = d,
                                !.order = "none", !.locked_mode = TRUE,
                                !.locked_loss_value = 0 - pnl, !.recoveries = 0]
  /\ UNCHANGED <<execVars, lz, ctlVars, calc>>

\* A tick while locked: lock_mode_controller on the basket PnL, the locked
\* loss and the breakout; CLOSE_ALL_AND_RESET resets the state dict,
\* TAKE_RECOVERY_TRADE is followed by a recovery order.
LdLock ==
  /\ ladder.locked_mode
  /\ \E pnl \in Pnls, breakout \in BOOLEAN :
       LET d == lock_mode_controller(pnl, ladder.locked_loss_value, breakout)
       IN /\ d = "TAKE_RECOVERY_TRADE" => ladder.recoveries < MaxRecoveries
          /\ ladder' =
               IF d = "CLOSE_ALL_AND_RESET"
               THEN [reset_all EXCEPT !.call = "lock_mode_controller", !.decision = d,
                                      !.pnl = pnl, !.breakout = breakout,
                                      !.order = "CLOSE_ALL"]
               ELSE IF d = "TAKE_RECOVERY_TRADE"
               THEN [ladder EXCEPT !.call = "lock_mode_controller", !.decision = d,
                                   !.pnl = pnl, !.breakout = breakout,
                                   !.order = "RECOVERY", !.recoveries = @ + 1]
               ELSE [ladder EXCEPT !.call = "lock_mode_controller", !.decision = d,
                                   !.pnl = pnl, !.breakout = breakout,
                                   !.order = "none"]
  /\ UNCHANGED <<execVars, lz, ctlVars, calc>>

\* The basket goes flat while unlocked (its positions close at the venue):
\* reset_all.
LdFlat ==
  /\ ~ladder.locked_mode
  /\ ladder.hedge_layers > 0
  /\ ladder' = reset_all
  /\ UNCHANGED <<execVars, lz, ctlVars, calc>>

LadderNext == LdPlan \/ LdHedge \/ LdLock \/ LdFlat

LadderSpec == LadderInit /\ [][LadderNext]_vars

\* C18: between entering lockedMode and leaving it, at most one
\* TAKE_RECOVERY_TRADE decision is produced, even when the basket stays
\* negative and the breakout stays true over consecutive ticks.
C18_OneRecoveryPerLock == ladder.locked_mode => ladder.recoveries <= 1

TpTarget == 40
SlCut == 20
BreakevenFloor == 10

\* risk.py 85-101; money in cents.
manage_open_trade(pnl_dollars, tp_target, sl_cut) ==
  IF pnl_dollars >= tp_target THEN "TAKE_PROFIT"
  ELSE IF pnl_dollars >= BreakevenFloor THEN "BREAKEVEN_SL"
  ELSE IF pnl_dollars <= 0 - sl_cut THEN "HEDGE_NOW"
  ELSE "HOLD"

\* risk.py 46-58; the baseline is <<>> for None.  The percentages are
\* quotients by the baseline: None makes the subtraction raise, 0 the division.
daily_stop(equity, daily_start_equity, max_dd_pct, daily_target_pct) ==
  IF daily_start_equity = <<>> THEN "TypeError"
  ELSE LET b == daily_start_equity[1]
       IN IF b = 0 THEN "ZeroDivisionError"
          ELSE IF 100 * (b - equity) >= max_dd_pct * b THEN "STOP_DRAWDOWN"
          ELSE IF 100 * (equity - b) >= daily_target_pct * b THEN "STOP_TARGET"
          ELSE "GO"

\* Floating PnL of a position and its initial risk, in cents.
PnlCents == {0 - 110, 0 - 100, 0 - 20, 0 - 5, 0, 10, 30, 40, 50, 60, 100, 120}
RValues == {50, 100}

\* Account equity, the baseline, and the limits <<drawdown, gain>> in percent
\* (risk.py 46: the defaults 5 and 3).
Equities == {938, 940, 950, 1000, 1010, 1030, 1040, 1041}
Baselines == {<<>>, <<1000>>}
DailyLimits == {<<5, 3>>, <<6, 4>>}

\* Lots asked of send_entry, in 0.001 lot, and symbols whose volume_min or
\* volume_max is not a multiple of volume_step.
Lots == {5, 10, 12, 25, 30, 60}
LotSymbolInfos ==
  SymbolInfos \cup {[stops |-> 2, freeze |-> 0, vmin |-> 14, vmax |-> 36, vstep |-> 10]}

\* filters.py 227-231, 258 and 276-278, 294: the look-backs and thresholds.
AdxPeriod == 10
EmaSlow == 34
DonchianLkb == 14
RangeLookback == 20
AdxTrend == 25
AdxMin == 14
MicroAtrPeriod == 10

\* A candle window, by what the classifier reads of it: its length n; whether
\* its last range_lookback candles are narrow; the sign of EMA fast minus EMA
\* slow; its ADX when that can be computed; and where the last close lies
\* against the Donchian channel of the candles before it (above or below it,
\* within the proximity threshold of its high or of its low, or inside).
WindowLens == {0, 15, 16, 19, 20, 33, 34, 35}
AdxLevels == {0, AdxMin, AdxTrend}
Windows ==
  [n : WindowLens, narrow : BOOLEAN, ema : {"up", "down"}, adx : AdxLevels,
   close : {"above", "below", "near_hi", "near_lo", "inside"}]

\* filters.py 43-54: None below period + 1 candles.
atr_available(w, period) == w.n >= period + 1

\* filters.py 128-170: None below period + 2 candles (129), and when the
\* n - period values of dx are fewer than period (116-118, 169-170).
compute_adx(w, period) ==
  IF w.n < period + 2 \/ w.n - period < period THEN <<>> ELSE <<w.adx>>

\* filters.py 87-113: the direction of an outright breakout.
donchian_breakout(w, lkb) ==
  IF w.n < lkb + 1 THEN <<>>
  ELSE IF w.close = "above" THEN <<"LONG">>
  ELSE IF w.close = "below" THEN <<"SHORT">>
  ELSE <<>>

\* filters.py 207-216.
detect_range(w, lookback_bars) == w.n >= lookback_bars /\ w.narrow

\* filters.py 223-267.
market_state(w) ==
  LET min_history == Max(EmaSlow, Max(DonchianLkb + 1, RangeLookback))
      adx_val == compute_adx(w, AdxPeriod)
      adx_ok == adx_val # <<>> /\ adx_val[1] >= AdxTrend
      breakout_dir == donchian_breakout(w, DonchianLkb)
  IN IF w.n < min_history THEN "UNSURE"
     ELSE IF detect_range(w, RangeLookback) THEN "RANGING"
     ELSE IF breakout_dir = <<"LONG">> /\ w.ema = "up" /\ adx_ok THEN "TREND_LONG"
     ELSE IF breakout_dir = <<"SHORT">> /\ w.ema = "down" /\ adx_ok THEN "TREND_SHORT"
     ELSE "UNSURE"

\* filters.py 274-309.
micro_breakout_signal(w) ==
  LET adx_val == compute_adx(w, AdxPeriod)
  IN IF w.n < DonchianLkb + 2 THEN <<>>
     ELSE IF adx_val = <<>> \/ adx_val[1] < AdxMin THEN <<>>
     ELSE IF ~atr_available(w, MicroAtrPeriod) THEN <<>>
     ELSE IF donchian_breakout(w, DonchianLkb) # <<>> THEN <<>>
     ELSE IF w.close = "near_hi" THEN <<"LONG">>
     ELSE IF w.close = "near_lo" THEN <<"SHORT">>
     ELSE <<>>

CalcInit ==
  /\ tick = 20 * Point /\ sym \in LotSymbolInfos
  /\ positions = <<>> /\ nextTicket = 1
  /\ op = "calc" /\ pc = "idle"
  /\ ExecRest
  /\ lz = LzRest
  /\ CtlRest
  /\ ladder = LadderRest
  /\ calc = CalcRest

\* manage_open_trade on a position's floating PnL, with its defaults; r_value
\* is the position's initial risk, which the function is not given.
CalcManage ==
  /\ \E pnl \in PnlCents, r \in RValues :
       calc' = [fn |-> "manage_open_trade", pnl |-> pnl, r_value |-> r,
                out |-> manage_open_trade(pnl, TpTarget, SlCut)]
  /\ UNCHANGED <<execVars, lz, ctlVars, ladder>>

\* daily_stop on an equity, a baseline and the two limits.
CalcDaily ==
  /\ \E e \in Equities, b \in Baselines, l \in DailyLimits :
       calc' = [fn |-> "daily_stop", equity |-> e, baseline |-> b,
                drawdown_limit |-> l[1], gain_limit |-> l[2],
                out |-> daily_stop(e, b, l[1], l[2])]
  /\ UNCHANGED <<execVars, lz, ctlVars, ladder>>

\* broker.py 325: the lot send_entry hands to the venue.
CalcLot ==
  /\ \E vol \in Lots :
       calc' = [fn |-> "round_volume", vol |-> vol, out |-> round_volume(vol, TRUE)]
  /\ UNCHANGED <<execVars, lz, ctlVars, ladder>>

\* The classifier on a candle window: the regime and the micro bias.
CalcRegime ==
  /\ \E w \in Windows :
       calc' = [fn |-> "market_state", window |-> w,
                out |-> [regime |-> market_state(w),
                         micro_bias |-> micro_breakout_signal(w)]]
  /\ UNCHANGED <<execVars, lz, ctlVars, ladder>>

\* C21: the per-position decision is a function of R = pnl / r_value: TRAIL
\* from R >= 1.0, BREAKEVEN_SL from R >= 0.5, CUT_OR_HEDGE at R <= -1.0,
\* otherwise HOLD.
C21_DecisionByR ==
  calc.fn = "manage_open_trade" =>
    calc.out = IF calc.pnl >= calc.r_value THEN "TRAIL"
               ELSE IF 2 * calc.pnl >= calc.r_value THEN "BREAKEVEN_SL"
               ELSE IF calc.pnl <= 0 - calc.r_value THEN "CUT_OR_HEDGE"
               ELSE "HOLD"

\* C22: daily_stop gives BASELINE_UNKNOWN without a baseline, STOP_GAIN when
\* the gain reaches the gain limit, STOP_LOSS when the drawdown reaches the
\* drawdown limit, and GO otherwise.
C22_DailyStop ==
  calc.fn = "daily_stop" =>
    calc.out =
      IF calc.baseline = <<>> THEN "BASELINE_UNKNOWN"
      ELSE LET b == calc.baseline[1]
           IN IF 100 * (calc.equity - b) >= calc.gain_limit * b THEN "STOP_GAIN"
              ELSE IF 100 * (b - calc.equity) >= calc.drawdown_limit * b THEN "STOP_LOSS"
              ELSE "GO"

\* C28: the lot handed to the venue is within [volume_min, volume_max] and a
\* whole multiple of volume_step.
C28_LotOnGrid ==
  calc.fn = "round_volume" =>
    /\ sym.vmin <= calc.out /\ calc.out <= sym.vmax
    /\ calc.out % sym.vstep = 0

\* C27: for every candle window shorter than the required lookback the
\* classifier returns UNSURE and no micro bias.
C27_ShortWindowUnsure ==
  (calc.fn = "market_state" /\ calc.window.n < EmaSlow) =>
    (calc.out.regime = "UNSURE" /\ calc.out.micro_bias = <<>>)

\* C32: with sufficient history, ADX >= adxTrendMin with a Donchian breakout
\* LONG and emaFast > emaSlow gives TREND_LONG (SHORT breakout and emaFast <
\* emaSlow gives TREND_SHORT), whatever else holds of the window; and the
\* regime is always one of TREND_LONG, TREND_SHORT, RANGING, UNSURE.
C32_TrendPriority ==
  calc.fn = "market_state" =>
    LET w == calc.window
        adx_val == compute_adx(w, AdxPeriod)
        strong == w.n >= EmaSlow /\ adx_val # <<>> /\ adx_val[1] >= AdxTrend
    IN /\ calc.out.regime \in MarketStates
       /\ (strong /\ w.close = "above" /\ w.ema = "up") => calc.out.regime = "TREND_LONG"
       /\ (strong /\ w.close = "below" /\ w.ema = "down") => calc.out.regime = "TREND_SHORT"

\* C33: a micro bias is emitted only when adxMicroMin <= ADX < adxTrendMin
\* and the last close is near the Donchian boundary without a breakout, and
\* then the regime of the same window is UNSURE.
C33_MicroOnlyInBand ==
  (calc.fn = "market_state" /\ calc.out.micro_bias # <<>>) =>
    LET w == calc.window
        adx_val == compute_adx(w, AdxPeriod)
    IN /\ adx_val # <<>> /\ AdxMin <= adx_val[1] /\ adx_val[1] < AdxTrend
       /\ w.close \in {"near_hi", "near_lo"}
       /\ calc.out.regime = "UNSURE"

CalcNext == CalcManage \/ CalcDaily \/ CalcLot \/ CalcRegime

CalcSpec == CalcInit /\ [][CalcNext]_vars

\* --------------------------------------- main.py: the entry gates of a tick

\* broker.py 217: the spread reported when symbol info or tick is missing.
SpreadUnavailable == 999999

\* main.py 53 and 55: CFG["SPREAD_POINTS_BASE_CAP"].
SpreadBaseCap == 150

\* main.py 347: CFG["MAX_CONCURRENT_POS"].
MaxConcurrentPos == 1

\* broker.py 213-219.
get_spread_points(info_ok, tick_ok, spread) ==
  IF ~info_ok \/ ~tick_ok THEN SpreadUnavailable ELSE spread

\* main.py 49-55, on the median med of the spread history.
dynamic_spread_cap(med) ==
  Max(Max(120, Min(240, TruncDiv(med * 22, 10))), SpreadBaseCap)

\* main.py 336-348: the gate list, as a set (each gate is appended at most once).
MainGates(atr, spread_ok, daily_reason, trades_limit_reached, tracked) ==
  (IF atr = "none" THEN {"ATR_unavailable"} ELSE IF atr = "quiet" THEN {"ATR<min"} ELSE {})
  \cup (IF ~spread_ok THEN {"spread>cap"} ELSE {})
  \cup (IF daily_reason \in {"STOP_GAIN", "STOP_LOSS"} THEN {"daily_stop"} ELSE {})
  \cup (IF trades_limit_reached THEN {"max_trades"} ELSE {})
  \cup (IF tracked >= MaxConcurrentPos THEN {"max_pos"} ELSE {})

\* The gate list alone deciding, without the second test of line 354.
entry_permitted_by_gates(gates, spread_ok, daily_reason, trades_limit_reached) ==
  gates = {} \/ gates = {"max_pos"}

\* main.py 353-354.
entry_permitted(gates, spread_ok, daily_reason, trades_limit_reached) ==
  /\ gates = {} \/ gates = {"max_pos"}
  /\ spread_ok /\ daily_reason = "GO" /\ ~trades_limit_reached

\* main.py 200-270: the lot attempt_entry asks of send_entry, <<>> when it
\* returns before line 270.  in.base_lot is the result of lots_for_risk,
\* in.loop_info whether symbol_info was available to the loop (307).
attempt_entry(in) ==
  LET direction ==
        IF in.regime = "TREND_LONG" THEN <<"LONG">>
        ELSE IF in.regime = "TREND_SHORT" THEN <<"SHORT">>
        ELSE in.micro_bias
      asked_lot == IF in.regime \in {"TREND_LONG", "TREND_SHORT"}
             THEN in.base_lot ELSE in.base_lot \div 2
      min_vol == IF in.loop_info THEN sym.vmin ELSE 0
  IN IF in.tracked > 0 THEN <<>>
     ELSE IF ~in.cooldown_ready THEN <<>>
     ELSE IF in.atr = "none" THEN <<>>
     ELSE IF in.atr = "quiet" THEN <<>>
     ELSE IF direction = <<>> THEN <<>>
     ELSE IF asked_lot <= 0 THEN <<>>
     ELSE IF asked_lot < min_vol THEN <<>>
     ELSE IF ~in.tick_ok THEN <<>>
     ELSE IF in.dryrun THEN <<>>
     ELSE <<asked_lot>>

\* What one tick reads: the registry size, the cooldown, the ATR (missing,
\* below the minimum, or fine), regime and micro bias, the lot of
\* lots_for_risk (even, in 0.001 lot), the availability of symbol info to the
\* loop (307), to get_spread_points (broker.py 214) and to the executor
\* (broker.py 37) and of the tick, the spread and the median of its history,
\* the daily verdict, the trade counter and --dryrun.
GateInputs ==
  [tracked : {0, 1}, cooldown_ready : BOOLEAN, atr : {"none", "quiet", "ok"},
   regime : {"TREND_LONG", "UNSURE"}, micro_bias : {<<>>, <<"SHORT">>},
   base_lot : {0, 8, 20}, loop_info : BOOLEAN, spread_info : BOOLEAN,
   broker_info : BOOLEAN,
   tick_ok : BOOLEAN, spread : {100, 200}, med : {50, 200},
   daily_reason : {"GO", "STOP_GAIN", "STOP_DRAWDOWN"},
   trades_today : {0, MaxTradesPerDay}, dryrun : BOOLEAN]

GateInit ==
  /\ tick = 20 * Point /\ sym = CtlSym
  /\ positions = <<>> /\ nextTicket = 1
  /\ op = "gates" /\ pc = "idle"
  /\ ExecRest
  /\ lz = LzRest
  /\ CtlRest
  /\ ladder = LadderRest
  /\ calc = CalcRest

\* main.py 307-355 with attempt_entry and broker.py 325: one tick's decision
\* on an ordinary entry.  sent is whether send_entry was called, lot the lot
\* it was asked for, volume the lot of its request.
GateTick ==
  /\ calc = CalcRest
  /\ \E in \in GateInputs :
       LET spread_points == get_spread_points(in.spread_info, in.tick_ok, in.spread)
           med == IF spread_points = SpreadUnavailable THEN spread_points ELSE in.med
           spread_ok == spread_points <= dynamic_spread_cap(med)
           limit == max_trades_reached(in.trades_today, MaxTradesPerDay)
           gates == MainGates(in.atr, spread_ok, in.daily_reason, limit, in.tracked)
           asked == IF entry_permitted(gates, spread_ok, in.daily_reason, limit)
                    THEN attempt_entry(in) ELSE <<>>
       IN calc' = [fn |-> "attempt_entry", in |-> in, spread_ok |-> spread_ok,
                   sent |-> asked # <<>>,
                   lot |-> IF asked = <<>> THEN 0 ELSE asked[1],
                   volume |-> IF asked = <<>> THEN 0
                              ELSE round_volume(asked[1], in.broker_info)]
  /\ UNCHANGED <<execVars, lz, ctlVars, ladder>>

\* main.py 357: the sleep that ends the tick.
GateSleep ==
  /\ calc # CalcRest
  /\ calc' = CalcRest
  /\ UNCHANGED <<execVars, lz, ctlVars, ladder>>

GateNext == GateTick \/ GateSleep

GateSpec == GateInit /\ [][GateNext]_vars

C35_EntryOnlyThroughGates ==
  (calc.fn = "attempt_entry" /\ calc.sent) =>
    /\ calc.in.tracked = 0
    /\ calc.spread_ok /\ calc.in.spread <= dynamic_spread_cap(calc.in.med)
    /\ calc.in.spread_info /\ calc.in.tick_ok
    /\ calc.in.daily_reason = "GO"
    /\ calc.in.trades_today < MaxTradesPerDay
    /\ calc.in.atr = "ok"

\* An entry was submitted in a tick whose every gate was open.
C35_Witness ==
  /\ calc.fn = "attempt_entry" /\ calc.sent /\ calc.lot = 20
  /\ calc.in.spread = 200 /\ calc.in.med = 200 /\ calc.in.daily_reason = "GO"
====
